---- MODULE Spec2Model ----
(***************************************************************************)
(* A model of the XMPP data structures of goexmpp (package xmpp):          *)
(* JID, the <stream:stream> header, Generic, Error, the three stanzas,     *)
(* their hand-written marshalling and ParseStanza.                         *)
(*                                                                         *)
(* Strings of the program are sequences of one-character strings, so that  *)
(* concatenation, escaping, lower-casing and regular-expression matching   *)
(* are computed character by character.                                    *)
(***************************************************************************)
EXTENDS Integers, Sequences, FiniteSets, TLC

VARIABLES
    jid,        \* the JID object: [Node, Domain, Resource]
    setVal,     \* argument of the last JID.Set call
    setErr,     \* result of the last JID.Set call: "none" (no call), "nil", "error"
    strRet,     \* JID.String() since the last Set: [called, s]
    hdr,        \* a stream header: [To, From, Id, Lang, Version]
    sOut,       \* the last encoding of hdr: [by, text]
    se,         \* the attributes of a start element given to parseStream
    ps,         \* parseStream's return: [called, nilStream, err, s]
    g,          \* a *Generic: <<>> is nil, <<x>> points to x
    gRet,       \* the last Generic.String call: [by, panicked, text]
    doc,        \* the document given to ParseStanza
    registry,   \* the extension registry: the namespaces with a factory
    res,        \* ParseStanza's return (structs.go): [called, nilStanza, err, v]
    res0,       \* ParseStanza's return (older file): [called, nilStanza, err, v]
    addLog,     \* the calls of addNested so far, in order: [by, n]
    enc,        \* marshalXML's return: [called, parts]
    er,         \* an *Error value
    erOut       \* the last encoding of er: [by, text]

jidVars == <<jid, setVal, setErr, strRet>>
streamVars == <<hdr, sOut>>
parseStreamVars == <<se, ps>>
genericVars == <<g, gRet>>
stanzaVars == <<doc, registry, res, res0, addLog, enc, er, erOut>>
vars == <<jidVars, streamVars, parseStreamVars, genericVars, stanzaVars>>

\* ------------------------------------------------------------------ bounds

\* longest string over JidAlphabet given to JID.Set
MaxJidLen == 3

\* most attributes on the start element given to parseStream
MaxAttrs == 2

\* deepest nesting of a Generic given to Generic.String
MaxDepth == 2

\* most child elements of a stanza document
MaxChildren == 2

\* most direct calls of addNested on one stanza
MaxAdds == 2

\* ----------------------------------------------------------------- strings

\* all sequences over S of length 0..n
StrUpTo(S, n) == UNION { [1..k -> S] : k \in 0..n }

\* ---------------------------------------------------------------------- JID

JidAlphabet == {"a", "@", "/"}

\* arguments given to JID.Set: every short string over the alphabet, and the
\* addresses of the documentation
JidInputs ==
    StrUpTo(JidAlphabet, MaxJidLen)
        \cup { <<"a", "@", "b", "/", "c">>, <<"b">>, <<"b", "/", "c">>,
               <<"a", "@", "b">>, <<"a", "@", "b", "@", "c">> }

\* [^@/]* : no character of s is '@' or '/'
NoSep(s) == \A k \in 1..Len(s) : s[k] # "@" /\ s[k] # "/"

\* The matches of ^(([^@/]+)@)?([^@/]+)(/([^@/]+))?$ against val, as pairs
\* <<i, j>>: i is the index of the '@' that ends group 1 (0 when group 1 takes
\* no part) and j the index of the '/' that starts group 4 (Len(val)+1 when
\* group 4 takes no part).
JidMatches(val) ==
    { m \in (0..Len(val)) \X (1..(Len(val) + 1)) :
        LET i == m[1]
            j == m[2]
        IN  /\ i < j
            /\ i > 0 => /\ val[i] = "@"
                        /\ i > 1
                        /\ NoSep(SubSeq(val, 1, i - 1))
            /\ j <= Len(val) => /\ val[j] = "/"
                                /\ j < Len(val)
                                /\ NoSep(SubSeq(val, j + 1, Len(val)))
            /\ j - i > 1
            /\ NoSep(SubSeq(val, i + 1, j - 1)) }

\* parts == nil
NoParts == [nil |-> TRUE, p2 |-> <<>>, p3 |-> <<>>, p5 |-> <<>>]

\* r.FindStringSubmatch(val): nil, or the submatches 2, 3 and 5 (an optional
\* group that took no part yields "")
FindStringSubmatchSwapped(val) ==
    IF JidMatches(val) = {} THEN NoParts
    ELSE LET m == CHOOSE x \in JidMatches(val) : TRUE
         IN  [nil |-> FALSE, p2 |-> SubSeq(val, m[1] + 1, m[2] - 1),
              p3 |-> SubSeq(val, 1, m[1] - 1),
              p5 |-> SubSeq(val, m[2] + 1, Len(val))]

FindStringSubmatch(val) ==
    IF JidMatches(val) = {} THEN NoParts
    ELSE LET m == CHOOSE x \in JidMatches(val) : TRUE
         IN  [nil |-> FALSE, p2 |-> SubSeq(val, 1, m[1] - 1),
              p3 |-> SubSeq(val, m[1] + 1, m[2] - 1),
              p5 |-> SubSeq(val, m[2] + 1, Len(val))]

\* func (jid *JID) String() string, without the '/' before the resource
JIDStringNoSlash(j) ==
    LET result == j.Domain
        r1 == IF j.Node # <<>> THEN j.Node \o <<"@">> \o result ELSE result
    IN  IF j.Resource # <<>> THEN r1 \o j.Resource ELSE r1

\* func (jid *JID) String() string
JIDString(j) ==
    LET result == j.Domain
        r1 == IF j.Node # <<>> THEN j.Node \o <<"@">> \o result ELSE result
    IN  IF j.Resource # <<>> THEN r1 \o <<"/">> \o j.Resource ELSE r1

\* func (jid *JID) Set(val string) error
JIDSet(val) ==
    LET parts == FindStringSubmatch(val)
    IN  /\ setVal' = val
        /\ strRet' = [called |-> FALSE, s |-> <<>>]
        /\ UNCHANGED <<streamVars, parseStreamVars, genericVars, stanzaVars>>
        /\ IF parts.nil
           THEN /\ setErr' = "error"
                /\ UNCHANGED jid
           ELSE /\ jid' = [Node |-> parts.p2, Domain |-> parts.p3,
                           Resource |-> parts.p5]
                /\ setErr' = "nil"

\* a call of jid.String()
CallJIDString ==
    /\ strRet' = [called |-> TRUE, s |-> JIDString(jid)]
    /\ UNCHANGED <<jid, setVal, setErr>>
    /\ UNCHANGED <<streamVars, parseStreamVars, genericVars, stanzaVars>>

\* the zero value JID{}
JIDZero ==
    /\ jid = [Node |-> <<>>, Domain |-> <<>>, Resource |-> <<>>]
    /\ setVal = <<>>
    /\ setErr = "none"
    /\ strRet = [called |-> FALSE, s |-> <<>>]

\* ------------------------------------------------------------ stream header

NsClient == <<"j", "a", "b", "b", "e", "r", ":", "c", "l", "i", "e", "n", "t">>
NsStream == <<"h", "t", "t", "p", ":", "/", "/", "e", "t", "h", "e", "r", "x",
        ".", "j", "a", "b", "b", "e", "r", ".", "o", "r", "g", "/", "s", "t",
        "r", "e", "a", "m", "s">>

\* &stream{}
streamZero == [To |-> <<>>, From |-> <<>>, Id |-> <<>>, Lang |-> <<>>,
               Version |-> <<>>]

\* xml.Escape of one character
EscapeChar(c) ==
    CASE c = "\"" -> <<"&", "#", "3", "4", ";">>
      [] c = "'"  -> <<"&", "#", "3", "9", ";">>
      [] c = "&"  -> <<"&", "a", "m", "p", ";">>
      [] c = "<"  -> <<"&", "l", "t", ";">>
      [] c = ">"  -> <<"&", "g", "t", ";">>
      [] OTHER    -> <<c>>

\* xml.Escape(w, []byte(value)): the bytes written
RECURSIVE Escape(_)
Escape(value) ==
    IF value = <<>> THEN <<>>
    ELSE EscapeChar(Head(value)) \o Escape(Tail(value))

\* writeField that writes the attribute whatever its value
writeFieldAlways(field, value) ==
    <<" ">> \o field \o <<"=", "\"">> \o Escape(value) \o <<"\"">>

\* func writeField(w io.Writer, field, value string): the bytes written
writeField(field, value) ==
    IF value # <<>>
    THEN <<" ">> \o field \o <<"=", "\"">> \o Escape(value) \o <<"\"">>
    ELSE <<>>

\* func (s *stream) MarshalXML() ([]byte, os.Error): the bytes
streamMarshalXML(h) ==
    <<"<", "s", "t", "r", "e", "a", "m", ":", "s", "t", "r", "e", "a", "m">>
        \o writeField(<<"x", "m", "l", "n", "s">>, <<"j", "a", "b", "b", "e",
                "r", ":", "c", "l", "i", "e", "n", "t">>)
        \o writeField(<<"x", "m", "l", "n", "s", ":", "s", "t", "r", "e", "a",
                "m">>, NsStream)
        \o writeField(<<"t", "o">>, h.To)
        \o writeField(<<"f", "r", "o", "m">>, h.From)
        \o writeField(<<"i", "d">>, h.Id)
        \o writeField(<<"x", "m", "l", ":", "l", "a", "n", "g">>, h.Lang)
        \o writeField(<<"v", "e", "r", "s", "i", "o", "n">>, h.Version)
        \o <<">">>

\* one `if s.X != "" { ... }` block of stream.String
streamStringField(open, value) ==
    IF value # <<>> THEN open \o Escape(value) \o <<"\"">> ELSE <<>>

\* stream.String closing the tag it opened
streamStringClosed(h) ==
    <<"<", "s", "t", "r", "e", "a", "m", ":", "s", "t", "r", "e", "a", "m",
            " ", "x", "m", "l", "n", "s", "=", "\"">> \o NsClient \o <<"\"",
            " ", "x", "m", "l", "n", "s", ":", "s", "t", "r", "e", "a", "m",
            "=", "\"">>
        \o NsStream \o <<"\"">>
        \o streamStringField(<<" ", "t", "o", "=", "\"">>, h.To)
        \o streamStringField(<<" ", "f", "r", "o", "m", "=", "\"">>, h.From)
        \o streamStringField(<<" ", "i", "d", "=", "\"">>, h.Id)
        \o streamStringField(<<" ", "x", "m", "l", ":", "l", "a", "n", "g",
                "=", "\"">>, h.Lang)
        \o streamStringField(<<" ", "v", "e", "r", "s", "i", "o", "n", "=",
                "\"">>, h.Version)
        \o <<"/", ">">>

\* func (s *stream) String() string
streamString(h) ==
    <<"<", "s", "t", "r", "e", "a", "m", ":", "s", "t", "r", "e", "a", "m",
            " ", "x", "m", "l", "n", "s", "=", "\"">> \o NsClient \o <<"\"",
            " ", "x", "m", "l", "n", "s", ":", "s", "t", "r", "e", "a", "m",
            "=", "\"">>
        \o NsStream \o <<"\"">>
        \o streamStringField(<<" ", "t", "o", "=", "\"">>, h.To)
        \o streamStringField(<<" ", "f", "r", "o", "m", "=", "\"">>, h.From)
        \o streamStringField(<<" ", "i", "d", "=", "\"">>, h.Id)
        \o streamStringField(<<" ", "x", "m", "l", ":", "l", "a", "n", "g",
                "=", "\"">>, h.Lang)
        \o streamStringField(<<" ", "v", "e", "r", "s", "i", "o", "n", "=",
                "\"">>, h.Version)
        \o <<">">>

\* values a header field may hold: empty, plain, and one made of the
\* characters that would close or break a tag if written unescaped
FieldValues == { <<>>, <<"a">>, <<"1">>, <<"\"", "/", ">", "<", "/", "s", "t",
        "r", "e", "a", "m", ":", "s", "t", "r", "e", "a", "m", ">">> }

Headers == [To : FieldValues, From : FieldValues, Id : FieldValues,
            Lang : FieldValues, Version : FieldValues]

\* a call of s.String() (structs.go)
CallStreamString ==
    /\ sOut' = [by |-> "String", text |-> streamString(hdr)]
    /\ UNCHANGED hdr
    /\ UNCHANGED <<jidVars, parseStreamVars, genericVars, stanzaVars>>

\* a call of s.MarshalXML(), also what the older s.String() returns
CallStreamMarshalXML ==
    /\ sOut' = [by |-> "MarshalXML", text |-> streamMarshalXML(hdr)]
    /\ UNCHANGED hdr
    /\ UNCHANGED <<jidVars, parseStreamVars, genericVars, stanzaVars>>

StreamIdle ==
    /\ hdr = streamZero
    /\ sOut = [by |-> "none", text |-> <<>>]

\* --------------------------------------------------------------- parseStream

\* strings.ToLower of one character
ToLowerChar(c) ==
    CASE c = "T" -> "t" [] c = "O" -> "o" [] c = "F" -> "f" [] c = "R" -> "r"
      [] c = "M" -> "m" [] c = "I" -> "i" [] c = "D" -> "d" [] c = "L" -> "l"
      [] c = "A" -> "a" [] c = "N" -> "n" [] c = "G" -> "g" [] c = "V" -> "v"
      [] c = "E" -> "e" [] c = "S" -> "s"
      [] OTHER -> c

\* strings.ToLower
ToLower(str) == [k \in 1..Len(str) |-> ToLowerChar(str[k])]

\* the switch of parseStream comparing the local name as written
parseStreamAttrExact(h, attr) ==
    LET local == attr.Name.Local
    IN  CASE local = <<"t", "o">>      -> [h EXCEPT !.To = attr.Value]
          [] local = <<"f", "r", "o", "m"
                  >>    -> [h EXCEPT !.From = attr.Value]
          [] local = <<"i", "d">>      -> [h EXCEPT !.Id = attr.Value]
          [] local = <<"l", "a", "n", "g"
                  >>    -> [h EXCEPT !.Lang = attr.Value]
          [] local = <<"v", "e", "r", "s", "i", "o", "n"
                  >> -> [h EXCEPT !.Version = attr.Value]
          [] OTHER               -> h

\* the switch of parseStream on one attribute
parseStreamAttr(h, attr) ==
    LET local == ToLower(attr.Name.Local)
    IN  CASE local = <<"t", "o">>      -> [h EXCEPT !.To = attr.Value]
          [] local = <<"f", "r", "o", "m"
                  >>    -> [h EXCEPT !.From = attr.Value]
          [] local = <<"i", "d">>      -> [h EXCEPT !.Id = attr.Value]
          [] local = <<"l", "a", "n", "g"
                  >>    -> [h EXCEPT !.Lang = attr.Value]
          [] local = <<"v", "e", "r", "s", "i", "o", "n"
                  >> -> [h EXCEPT !.Version = attr.Value]
          [] OTHER               -> h

\* for _, attr := range se.Attr { ... } from the header h
RECURSIVE parseStreamLoop(_, _)
parseStreamLoop(h, attrs) ==
    IF attrs = <<>> THEN h
    ELSE parseStreamLoop(parseStreamAttr(h, Head(attrs)), Tail(attrs))

\* func parseStream(se xml.StartElement) (*stream, error)
parseStream(attrs) ==
    [called |-> TRUE, nilStream |-> FALSE, err |-> "nil",
     s |-> parseStreamLoop(streamZero, attrs)]

AttrLocals == { <<"t", "o">>, <<"T", "O">>, <<"F", "r", "o", "m">>, <<"I", "D"
        >>, <<"l", "a", "n", "g">>, <<"V", "e", "r", "s", "i", "o", "n">>,
                <<"x", "m", "l", "n", "s">>, <<"t", "o", "o">> }
AttrSpaces == { <<>>, <<"x", "m", "l">> }
AttrValues == { <<"x">>, <<"y">> }

Attrs == [Name : [Space : AttrSpaces, Local : AttrLocals], Value : AttrValues]

\* a call of parseStream(se)
CallParseStream ==
    /\ ~ps.called
    /\ ps' = parseStream(se)
    /\ UNCHANGED se
    /\ UNCHANGED <<jidVars, streamVars, genericVars, stanzaVars>>

ParseStreamIdle ==
    /\ se = <<>>
    /\ ps = [called |-> FALSE, nilStream |-> TRUE, err |-> "nil", s |-> streamZero]

\* ------------------------------------------------------------------ Generic

GenSpaces == { <<>>, <<"n", "s">> }
GenLocals == { <<"a">>, <<"b">> }
GenTexts == { <<>>, <<"t">> }

\* the Generic values nested at most d deep, as pointers (<<x>>)
RECURSIVE Generics(_)
Generics(d) ==
    LET sub == IF d = 0 THEN { <<>> } ELSE { <<>> } \cup Generics(d - 1)
    IN  { <<x>> : x \in [XMLName : [Space : GenSpaces, Local : GenLocals],
                         Any : sub, Chardata : GenTexts] }

\* fmt.Sprintf("<%s %s>%s%s</%s %s>", ...) of Generic.String
genericSprintf(x, sub) ==
    <<"<">> \o x.XMLName.Space \o <<" ">> \o x.XMLName.Local \o <<">">>
        \o sub \o x.Chardata
        \o <<"<", "/">> \o x.XMLName.Space \o <<" ">> \o x.XMLName.Local \o <<
                ">">>

\* func (u *Generic) String() string of the older file: u.Any is read without
\* testing u for nil, which panics on a nil receiver
RECURSIVE GenericString0(_)
GenericString0(u) ==
    IF u = <<>>
    THEN [panicked |-> TRUE, text |-> <<>>]
    ELSE LET x == u[1]
             sub == IF x.Any # <<>> THEN GenericString0(x.Any).text ELSE <<>>
         IN  [panicked |-> FALSE, text |-> genericSprintf(x, sub)]

\* func (u *Generic) String() string (structs.go)
RECURSIVE GenericString(_)
GenericString(u) ==
    IF u = <<>>
    THEN [panicked |-> FALSE, text |-> <<"n", "i", "l">>]
    ELSE LET x == u[1]
             sub == IF x.Any # <<>> THEN GenericString(x.Any).text ELSE <<>>
         IN  [panicked |-> FALSE, text |-> genericSprintf(x, sub)]

\* a call of g.String() (structs.go)
CallGenericString ==
    /\ gRet' = [by |-> "structs.go"] @@ GenericString(g)
    /\ UNCHANGED g
    /\ UNCHANGED <<jidVars, streamVars, parseStreamVars, stanzaVars>>

\* a call of g.String() (older file)
CallGenericString0 ==
    /\ gRet' = [by |-> "older"] @@ GenericString0(g)
    /\ UNCHANGED g
    /\ UNCHANGED <<jidVars, streamVars, parseStreamVars, stanzaVars>>

GenericIdle ==
    /\ g = <<>>
    /\ gRet = [by |-> "none", panicked |-> FALSE, text |-> <<>>]

\* ------------------------------------------------------------------ stanzas

NsBind == <<"u", "r", "n", ":", "i", "e", "t", "f", ":", "p", "a", "r", "a",
        "m", "s", ":", "x", "m", "l", ":", "n", "s", ":", "x", "m", "p", "p",
        "-", "b", "i", "n", "d">>
NsRoster == <<"j", "a", "b", "b", "e", "r", ":", "i", "q", ":", "r", "o", "s",
        "t", "e", "r">>

\* child elements a stanza document may hold: [Name, Type (the type
\* attribute), Text (the character data)]
KnownChild(local) ==
    [Name |-> [Space |-> <<>>, Local |-> local], Type |-> <<>>, Text |-> <<"h",
            "i">>]

ErrorChild ==
    [Name |-> [Space |-> <<>>, Local |-> <<"e", "r", "r", "o", "r"
            >>], Type |-> <<"c", "a", "n", "c", "e", "l">>,
     Text |-> <<>>]

BindChild ==
    [Name |-> [Space |-> NsBind, Local |-> <<"b", "i", "n", "d"
            >>], Type |-> <<>>,
     Text |-> <<>>]

QueryChild ==
    [Name |-> [Space |-> NsRoster, Local |-> <<"q", "u", "e", "r", "y"
            >>], Type |-> <<>>,
     Text |-> <<>>]

KnownLocals == { <<"s", "u", "b", "j", "e", "c", "t">>, <<"b", "o", "d", "y"
        >>, <<"t", "h", "r", "e", "a", "d">>, <<"s", "h", "o", "w">>, <<"s",
        "t", "a", "t", "u", "s">>,
                 <<"p", "r", "i", "o", "r", "i", "t", "y">> }

\* (every child is named as XMPP names its elements: none has the name of a
\* Go field, such as Nested, that an untagged field would match by itself)
ChildPool ==
    { KnownChild(l) : l \in KnownLocals } \cup { ErrorChild, BindChild, QueryChild }

\* sequences of pairwise different children
ChildSeqs ==
    { cs \in UNION { [1..k -> ChildPool] : k \in 0..MaxChildren } :
        \A i, j \in 1..Len(cs) : i # j => cs[i] # cs[j] }

\* the attributes of the root element: to, from, id, type and xml:lang
NoAttrs == [to |-> <<>>, from |-> <<>>, id |-> <<>>, type |-> <<>>, lang |-> <<>>]

AttrChoices ==
    { NoAttrs,
      [NoAttrs EXCEPT !.to = <<"j", "@", "d">>],
      [NoAttrs EXCEPT !.id = <<"1">>],
      [NoAttrs EXCEPT !.lang = <<"e", "n">>],
      [NoAttrs EXCEPT !.from = <<"d">>, !.type = <<"g", "e", "t">>],
      [to |-> <<"j", "@", "d">>, from |-> <<"d">>, id |-> <<"1">>, type |-> <<
              "g", "e", "t">>,
       lang |-> <<"e", "n">>] }

RootNames == { <<"i", "q">>, <<"m", "e", "s", "s", "a", "g", "e">>, <<"p", "r",
        "e", "s", "e", "n", "c", "e">>, <<"f", "o", "o">>, <<"I", "Q">> }

\* a document: the kind of its first token ("error" when the tokenizer fails
\* on it), and for a start element its name, attributes and children, and
\* whether the rest of the element is well formed
Docs ==
    [tok : {"StartElement"}, name : RootNames, attrs : AttrChoices,
     children : ChildSeqs, bodyOk : BOOLEAN]
      \cup [tok : {"CharData", "Comment", "error"}, name : { <<>> },
            attrs : {NoAttrs}, children : { <<>> }, bodyOk : {TRUE}]

\* the Generic a child element decodes into
GenericOf(c) == [XMLName |-> c.Name, Any |-> <<>>, Chardata |-> c.Text]

\* the Error an <error> child decodes into
ErrorOf(c) == [Type |-> c.Type, Any |-> <<>>]

\* the last child of cs whose local name is local: <<>> if none, else <<c>>
LastChild(cs, local) ==
    LET at == { k \in 1..Len(cs) : cs[k].Name.Local = local }
    IN  IF at = {} THEN <<>>
        ELSE << cs[CHOOSE k \in at : \A m \in at : m <= k] >>

\* the field a child element is decoded into: nil, or a pointer to a Generic
GenericField(cs, local) ==
    IF LastChild(cs, local) = <<>> THEN <<>>
    ELSE << GenericOf(LastChild(cs, local)[1]) >>

\* the Error field: nil, or a pointer to the Error the <error> child makes
ErrorField(cs) ==
    IF LastChild(cs, <<"e", "r", "r", "o", "r">>) = <<>> THEN <<>>
    ELSE << ErrorOf(LastChild(cs, <<"e", "r", "r", "o", "r">>)[1]) >>

\* the struct a root name selects
KindOf(name) ==
    CASE name = <<"i", "q">> -> "Iq"
      [] name = <<"m", "e", "s", "s", "a", "g", "e">> -> "Message"
      [] name = <<"p", "r", "e", "s", "e", "n", "c", "e">> -> "Presence"
      [] OTHER -> "none"

\* the child fields of each struct (structs.go)
SlotsOf(kind) ==
    CASE kind = "Message" -> { <<"s", "u", "b", "j", "e", "c", "t">>, <<"b",
            "o", "d", "y">>, <<"t", "h", "r", "e", "a", "d">> }
      [] kind = "Presence" -> { <<"s", "h", "o", "w">>, <<"s", "t", "a", "t",
              "u", "s">>, <<"p", "r", "i", "o", "r", "i", "t", "y">> }
      [] OTHER -> {}

\* &Iq{}, &Message{}, &Presence{} (structs.go)
ZeroStanza(kind) ==
    [kind |-> kind, To |-> <<>>, From |-> <<>>, Id |-> <<>>, Type |-> <<>>,
     Lang |-> <<>>, Innerxml |-> <<>>, Error |-> <<>>,
     Slots |-> [l \in SlotsOf(kind) |-> <<>>], Nested |-> <<>>]

\* p.DecodeElement(stan, &se) into the structs of structs.go: attributes by
\* their tags, the children verbatim into Innerxml, <error> into Error, and
\* each child named like a child field into that field
DecodeElement(kind, d) ==
    [err |-> IF d.bodyOk THEN "nil" ELSE "syntax error",
     v |-> [kind |-> kind,
            To |-> d.attrs.to, From |-> d.attrs.from, Id |-> d.attrs.id,
            Type |-> d.attrs.type, Lang |-> d.attrs.lang,
            Innerxml |-> IF d.bodyOk THEN d.children ELSE <<>>,
            Error |-> ErrorField(d.children),
            Slots |-> [l \in SlotsOf(kind) |->
                          GenericField(d.children, l)],
            Nested |-> <<>>]]

\* the result of ParseStanza when it returns nil, err
NilStanza(err) ==
    [nilStanza |-> TRUE, err |-> err, v |-> ZeroStanza("none")]

\* ParseStanza returning the stanza it was decoding when decoding fails
ParseStanzaPartial(d) ==
    IF d.tok = "error" THEN NilStanza("token error")
    ELSE IF d.tok # "StartElement" THEN NilStanza("Not a start element")
    ELSE IF KindOf(d.name) = "none"
         THEN NilStanza("Not iq, message, or presence")
    ELSE LET dec == DecodeElement(KindOf(d.name), d)
         IN  [nilStanza |-> FALSE, err |-> dec.err, v |-> dec.v]

\* func ParseStanza(str string) (Stanza, error) (structs.go)
ParseStanza(d) ==
    IF d.tok = "error" THEN NilStanza("token error")
    ELSE IF d.tok # "StartElement" THEN NilStanza("Not a start element")
    ELSE IF KindOf(d.name) = "none"
         THEN NilStanza("Not iq, message, or presence")
    ELSE LET dec == DecodeElement(KindOf(d.name), d)
         IN  IF dec.err # "nil" THEN NilStanza(dec.err)
             ELSE [nilStanza |-> FALSE, err |-> "nil", v |-> dec.v]

\* addNested putting the value first
addNestedFirst(v, n) == [v EXCEPT !.Nested = <<n>> \o @]

\* func (m *Message) addNested(n interface{}), and the same of Presence and Iq
addNested(v, n) == [v EXCEPT !.Nested = Append(@, n)]

\* func newBind(name *xml.Name) interface{}: &bindIq{}
newBind(name) == [type |-> "bindIq", XMLName |-> [Space |-> <<>>, Local |-> <<>>]]

\* bindExt.StanzaHandlers: NsBind -> newBind
bindExt == { NsBind }

\* the registries a program may have built before it parses
Registries == { {}, bindExt }

\* decoding a child element into the value its factory made: the element's
\* name is stored in XMLName
DecodeNested(n, c) == [n EXCEPT !.XMLName = c.Name]

\* the step of decoding that consults the registry: each child element whose
\* namespace has a factory is decoded into a value the factory makes, which
\* addNested appends; the other children are left to Innerxml
RECURSIVE parseExtended(_, _, _)
parseExtended(v, cs, reg) ==
    IF cs = <<>> THEN v
    ELSE LET c == Head(cs)
         IN  IF c.Name.Space \in reg
             THEN parseExtended(addNested(v, DecodeNested(newBind(c.Name), c)),
                                Tail(cs), reg)
             ELSE parseExtended(v, Tail(cs), reg)

\* the calls of addNested parseExtended makes, in order
RECURSIVE extendedCalls(_, _)
extendedCalls(cs, reg) ==
    IF cs = <<>> THEN <<>>
    ELSE LET c == Head(cs)
         IN  IF c.Name.Space \in reg
             THEN << [by |-> "decode", n |-> DecodeNested(newBind(c.Name), c)] >>
                      \o extendedCalls(Tail(cs), reg)
             ELSE extendedCalls(Tail(cs), reg)

\* values a caller passes to addNested itself
ExtValues ==
    { [type |-> "bindIq", XMLName |-> [Space |-> NsBind, Local |-> <<"b", "i",
            "n", "d">>]],
      [type |-> "Generic", XMLName |-> [Space |-> <<"n", "s">>, Local |-> <<"x"
              >>]] }

NotCalled == [called |-> FALSE, extended |-> FALSE] @@ NilStanza("nil")

\* a call of ParseStanza(doc) (structs.go); the two files define the same
\* names of package xmpp, so a program is built with one of them
CallParseStanza ==
    /\ ~res.called /\ ~res0.called
    /\ res' = [called |-> TRUE, extended |-> FALSE] @@ ParseStanza(doc)
    /\ UNCHANGED <<doc, registry, res0, addLog, enc, er, erOut>>
    /\ UNCHANGED <<jidVars, streamVars, parseStreamVars, genericVars>>

\* the registry step on the stanza ParseStanza returned
CallParseExtended ==
    /\ res.called /\ ~res.nilStanza /\ ~res.extended
    /\ res' = [res EXCEPT !.extended = TRUE,
                          !.v = parseExtended(@, @.Innerxml, registry)]
    /\ addLog' = addLog \o extendedCalls(res.v.Innerxml, registry)
    /\ UNCHANGED <<doc, registry, res0, enc, er, erOut>>
    /\ UNCHANGED <<jidVars, streamVars, parseStreamVars, genericVars>>

\* a call of stan.addNested(n)
CallAddNested(n) ==
    /\ res.called /\ ~res.nilStanza
    /\ Cardinality({ k \in 1..Len(addLog) : addLog[k].by = "caller" }) < MaxAdds
    /\ res' = [res EXCEPT !.v = addNested(@, n)]
    /\ addLog' = Append(addLog, [by |-> "caller", n |-> n])
    /\ UNCHANGED <<doc, registry, res0, enc, er, erOut>>
    /\ UNCHANGED <<jidVars, streamVars, parseStreamVars, genericVars>>

\* ------------------------------------------- stanzas of the older file

\* the child fields of each struct of the older file, besides Error and Any
SlotsOf0(kind) ==
    CASE kind = "Message" -> { <<"s", "u", "b", "j", "e", "c", "t">>, <<"b",
            "o", "d", "y">>, <<"t", "h", "r", "e", "a", "d">> }
      [] kind = "Presence" -> { <<"s", "h", "o", "w">>, <<"s", "t", "a", "t",
              "u", "s">>, <<"p", "r", "i", "o", "r", "i", "t", "y">> }
      [] kind = "Iq" -> { <<"q", "u", "e", "r", "y">> }
      [] OTHER -> {}

\* &Iq{}, &Message{}, &Presence{} of the older file
ZeroStanza0(kind) ==
    [kind |-> kind, To |-> <<>>, From |-> <<>>, Id |-> <<>>, Type |-> <<>>,
     Lang |-> <<>>, Error |-> <<>>,
     Slots |-> [l \in SlotsOf0(kind) |-> <<>>], Any |-> <<>>]

\* the last child of cs that is neither <error> nor named like a field, as
\* the Any field holds it
LastOther(cs, kind) ==
    LET at == { k \in 1..Len(cs) :
                  /\ cs[k].Name.Local # <<"e", "r", "r", "o", "r">>
                  /\ cs[k].Name.Local \notin SlotsOf0(kind) }
    IN  IF at = {} THEN <<>>
        ELSE << GenericOf(cs[CHOOSE k \in at : \A m \in at : m <= k]) >>

\* p.Unmarshal(stan, &se) into the structs of the older file: attributes and
\* children go to the field of their name, a child that matches no field to Any
Unmarshal0(kind, d) ==
    [err |-> IF d.bodyOk THEN "nil" ELSE "syntax error",
     v |-> [kind |-> kind,
            To |-> d.attrs.to, From |-> d.attrs.from, Id |-> d.attrs.id,
            Type |-> d.attrs.type, Lang |-> d.attrs.lang,
            Error |-> ErrorField(d.children),
            Slots |-> [l \in SlotsOf0(kind) |->
                          GenericField(d.children, l)],
            Any |-> LastOther(d.children, kind)]]

NilStanza0(err) ==
    [nilStanza |-> TRUE, err |-> err, v |-> ZeroStanza0("none")]

\* func ParseStanza(str string) (Stanza, os.Error) of the older file
ParseStanza0(d) ==
    IF d.tok = "error" THEN NilStanza0("token error")
    ELSE IF d.tok # "StartElement" THEN NilStanza0("Not a start element")
    ELSE IF KindOf(d.name) = "none"
         THEN NilStanza0("Not iq, message, or presence")
    ELSE LET dec == Unmarshal0(KindOf(d.name), d)
         IN  IF dec.err # "nil" THEN NilStanza0(dec.err)
             ELSE [nilStanza |-> FALSE, err |-> "nil", v |-> dec.v]

\* XName() of the three structs
XName(v) ==
    CASE v.kind = "Iq" -> <<"i", "q">>
      [] v.kind = "Message" -> <<"m", "e", "s", "s", "a", "g", "e">>
      [] v.kind = "Presence" -> <<"p", "r", "e", "s", "e", "n", "c", "e">>

\* xml.Marshal of a *Generic: the element under its XMLName, its namespace
\* as xmlns, the nested element if any, the escaped character data
RECURSIVE xmlMarshalGeneric(_)
xmlMarshalGeneric(u) ==
    IF u = <<>> THEN <<>>
    ELSE LET x == u[1]
         IN  <<"<">> \o x.XMLName.Local
                 \o writeField(<<"x", "m", "l", "n", "s">>, x.XMLName.Space)
                 \o <<">">>
                 \o xmlMarshalGeneric(x.Any)
                 \o Escape(x.Chardata)
                 \o <<"<", "/">> \o x.XMLName.Local \o <<">">>

\* func (er *Error) MarshalXML() ([]byte, os.Error) of the older file
ErrorMarshalXML(e) ==
    <<"<", "e", "r", "r", "o", "r">> \o writeField(<<"t", "y", "p", "e"
            >>, e.Type) \o <<">">>
        \o (IF e.Any # <<>> THEN xmlMarshalGeneric(e.Any) ELSE <<>>)
        \o <<"<", "/", "e", "r", "r", "o", "r", ">">>

\* func (er *Error) Error() string (structs.go): xml.Marshal(er) under the
\* tags of Error, whose Type is `xml:"type,attr"` without omitempty and so
\* written whatever its value; xml.Marshal does not fail on this struct
ErrorError(e) ==
    <<"<", "e", "r", "r", "o", "r">> \o writeFieldAlways(<<"t", "y", "p", "e"
            >>, e.Type) \o <<">">>
        \o xmlMarshalGeneric(e.Any)
        \o <<"<", "/", "e", "r", "r", "o", "r", ">">>

\* one `if st.X() != "" { writeField(buf, name, st.X()) }` of marshalXML
marshalAttr(name, value) ==
    IF value # <<>>
    THEN << [part |-> "attr", name |-> name, text |-> writeField(name, value)] >>
    ELSE <<>>

\* func marshalXML(st Stanza) ([]byte, os.Error) of the older file: what it
\* writes, piece by piece; the bytes are the pieces' texts in order
marshalXML(v) ==
    << [part |-> "open", name |-> XName(v), text |-> <<"<">> \o XName(v)] >>
        \o marshalAttr(<<"t", "o">>, v.To)
        \o marshalAttr(<<"f", "r", "o", "m">>, v.From)
        \o marshalAttr(<<"i", "d">>, v.Id)
        \o marshalAttr(<<"t", "y", "p", "e">>, v.Type)
        \o marshalAttr(<<"x", "m", "l", ":", "l", "a", "n", "g">>, v.Lang)
        \o << [part |-> "gt", name |-> <<>>, text |-> <<">">>] >>
        \o (IF v.Error # <<>>
            THEN << [part |-> "child", name |-> <<"e", "r", "r", "o", "r">>,
                     text |-> ErrorMarshalXML(v.Error[1])] >>
            ELSE <<>>)
        \o (IF v.Any # <<>>
            THEN << [part |-> "child", name |-> v.Any[1].XMLName.Local,
                     text |-> xmlMarshalGeneric(v.Any)] >>
            ELSE <<>>)
        \o (IF v.kind = "Iq" /\ v.Slots[<<"q", "u", "e", "r", "y">>] # <<>>
            THEN << [part |-> "child", name |-> <<"q", "u", "e", "r", "y">>,
                     text |-> xmlMarshalGeneric(v.Slots[<<"q", "u", "e", "r",
                             "y">>])] >>
            ELSE <<>>)
        \o << [part |-> "close", name |-> XName(v),
               text |-> <<"<", "/">> \o XName(v) \o <<">">>] >>

\* buf.Bytes(): the texts of the pieces, concatenated
RECURSIVE Bytes(_)
Bytes(parts) ==
    IF parts = <<>> THEN <<>> ELSE Head(parts).text \o Bytes(Tail(parts))

NotCalled0 == [called |-> FALSE] @@ NilStanza0("nil")

\* the Error values given to the encoders of Error
Errors == [Type : { <<>>, <<"c", "a", "n", "c", "e", "l">> },
           Any : { <<>>,
                   << [XMLName |-> [Space |-> <<"n", "s">>, Local |-> <<"a">>],
                       Any |-> <<>>, Chardata |-> <<"t">>] >> }]

\* a call of ParseStanza(doc) (older file)
CallParseStanza0 ==
    /\ ~res0.called /\ ~res.called
    /\ res0' = [called |-> TRUE] @@ ParseStanza0(doc)
    /\ UNCHANGED <<doc, registry, res, addLog, enc, er, erOut>>
    /\ UNCHANGED <<jidVars, streamVars, parseStreamVars, genericVars>>

\* a call of stan.MarshalXML(), that is marshalXML(stan) (older file)
CallMarshalXML ==
    /\ res0.called /\ ~res0.nilStanza
    /\ ~enc.called
    /\ enc' = [called |-> TRUE, parts |-> marshalXML(res0.v)]
    /\ UNCHANGED <<doc, registry, res, res0, addLog, er, erOut>>
    /\ UNCHANGED <<jidVars, streamVars, parseStreamVars, genericVars>>

\* a call of er.MarshalXML(), also what er.String() returns (older file)
CallErrorMarshalXML ==
    /\ erOut' = [by |-> "MarshalXML", text |-> ErrorMarshalXML(er)]
    /\ UNCHANGED <<doc, registry, res, res0, addLog, enc, er>>
    /\ UNCHANGED <<jidVars, streamVars, parseStreamVars, genericVars>>

\* a call of er.Error() (structs.go)
CallErrorError ==
    /\ erOut' = [by |-> "Error", text |-> ErrorError(er)]
    /\ UNCHANGED <<doc, registry, res, res0, addLog, enc, er>>
    /\ UNCHANGED <<jidVars, streamVars, parseStreamVars, genericVars>>

\* the empty string given as a document: the tokenizer fails at once
IdleDoc == [tok |-> "error", name |-> <<>>, attrs |-> NoAttrs,
            children |-> <<>>, bodyOk |-> TRUE]

StanzaIdle ==
    /\ doc = IdleDoc
    /\ registry = {}
    /\ res = NotCalled
    /\ res0 = NotCalled0
    /\ addLog = <<>>
    /\ enc = [called |-> FALSE, parts |-> <<>>]
    /\ er = [Type |-> <<>>, Any |-> <<>>]
    /\ erOut = [by |-> "none", text |-> <<>>]

\* ------------------------------------------------------------ specifications

InitJID == JIDZero /\ StreamIdle /\ ParseStreamIdle /\ GenericIdle /\ StanzaIdle

NextJID ==
    \/ \E val \in JidInputs : JIDSet(val)
    \/ CallJIDString

SpecJID == InitJID /\ [][NextJID]_vars

InitStream ==
    /\ JIDZero /\ ParseStreamIdle /\ GenericIdle /\ StanzaIdle
    /\ hdr \in Headers
    /\ sOut = [by |-> "none", text |-> <<>>]

NextStream ==
    \/ CallStreamString
    \/ CallStreamMarshalXML

SpecStream == InitStream /\ [][NextStream]_vars

InitParseStream ==
    /\ JIDZero /\ StreamIdle /\ GenericIdle /\ StanzaIdle
    /\ se \in UNION { [1..k -> Attrs] : k \in 0..MaxAttrs }
    /\ ps = [called |-> FALSE, nilStream |-> TRUE, err |-> "nil", s |-> streamZero]

NextParseStream == CallParseStream

SpecParseStream == InitParseStream /\ [][NextParseStream]_vars

InitGeneric ==
    /\ JIDZero /\ StreamIdle /\ ParseStreamIdle /\ StanzaIdle
    /\ g \in { <<>> } \cup Generics(MaxDepth)
    /\ gRet = [by |-> "none", panicked |-> FALSE, text |-> <<>>]

NextGeneric ==
    \/ CallGenericString
    \/ CallGenericString0

SpecGeneric == InitGeneric /\ [][NextGeneric]_vars

\* parsing with the structs of structs.go and of the older file, the registry
\* step and addNested
InitParse ==
    /\ JIDZero /\ StreamIdle /\ ParseStreamIdle /\ GenericIdle
    /\ doc \in Docs
    /\ registry \in Registries
    /\ res = NotCalled
    /\ res0 = NotCalled0
    /\ addLog = <<>>
    /\ enc = [called |-> FALSE, parts |-> <<>>]
    /\ er = [Type |-> <<>>, Any |-> <<>>]
    /\ erOut = [by |-> "none", text |-> <<>>]

NextParse ==
    \/ CallParseStanza
    \/ CallParseStanza0
    \/ CallParseExtended
    \/ \E n \in ExtValues : CallAddNested(n)

SpecParse == InitParse /\ [][NextParse]_vars

\* the encoders, each on its own object: a stream header, a stanza parsed
\* with the older file, an Error
InitEncode ==
    /\ JIDZero /\ ParseStreamIdle /\ GenericIdle
    /\ registry = {}
    /\ res = NotCalled
    /\ res0 = NotCalled0
    /\ addLog = <<>>
    /\ enc = [called |-> FALSE, parts |-> <<>>]
    /\ sOut = [by |-> "none", text |-> <<>>]
    /\ erOut = [by |-> "none", text |-> <<>>]
    /\ \/ hdr \in Headers /\ doc = IdleDoc /\ er = [Type |-> <<>>, Any |-> <<>>]
       \/ hdr = streamZero /\ doc \in Docs /\ er = [Type |-> <<>>, Any |-> <<>>]
       \/ hdr = streamZero /\ doc = IdleDoc /\ er \in Errors

NextEncode ==
    \/ CallStreamString
    \/ CallStreamMarshalXML
    \/ CallParseStanza0
    \/ CallMarshalXML
    \/ CallErrorMarshalXML
    \/ CallErrorError

SpecEncode == InitEncode /\ [][NextEncode]_vars

\* ---------------------------------------------------------------- properties

\* the indices at which pat occurs in text
Positions(text, pat) ==
    { k \in 1..(Len(text) - Len(pat) + 1) :
        SubSeq(text, k, k + Len(pat) - 1) = pat }

\* the number of occurrences of character c in str
Count(str, c) == Cardinality({ k \in 1..Len(str) : str[k] = c })

\* the grammar (node@)?domain(/resource)? read from the separators: at most
\* one '@' and one '/', the '@' first, and a character before, between and
\* after them
InGrammar(str) ==
    LET at == { k \in 1..Len(str) : str[k] = "@" }
        sl == { k \in 1..Len(str) : str[k] = "/" }
    IN  /\ str # <<>>
        /\ Cardinality(at) <= 1
        /\ Cardinality(sl) <= 1
        /\ \A k \in at : k > 1 /\ k < Len(str)
        /\ \A k \in sl : k > 1 /\ k < Len(str)
        /\ \A k \in at : \A m \in sl : k + 1 < m

\* C7: for every string s that JID.Set accepts, Set(s) followed by String()
\* returns exactly s, whatever the JID held before the call
C7_SetThenString ==
    (strRet.called /\ setErr = "nil") => strRet.s = setVal

\* Set("a@b/c") succeeded on a JID that held something else, and String()
\* was called
C7_Witness ==
    /\ strRet.called
    /\ setErr = "nil"
    /\ setVal = <<"a", "@", "b", "/", "c">>
    /\ strRet.s = <<"a", "@", "b", "/", "c">>

\* what C8 says of the state after a call of Set
C8_AfterSet ==
    setErr # "none" =>
        /\ setErr = "error" <=> ~InGrammar(setVal)
        /\ setErr = "nil" =>
              /\ jid.Domain # <<>>
              /\ \A f \in {jid.Node, jid.Domain, jid.Resource} :
                    Count(f, "@") = 0 /\ Count(f, "/") = 0
        /\ (setErr = "nil" /\ setVal = <<"a", "@", "b", "/", "c">>) =>
              jid = [Node |-> <<"a">>, Domain |-> <<"b">>, Resource |-> <<"c"
                      >>]
        /\ (setErr = "nil" /\ setVal = <<"b">>) =>
              jid = [Node |-> <<>>, Domain |-> <<"b">>, Resource |-> <<>>]

\* C8: JID.Set(s) fails exactly when s does not match the grammar
\* (node@)?domain(/resource)? (so Set("") fails); on success Domain is
\* non-empty and no field holds '@' or '/', with the two documented results;
\* on failure the three fields are left unchanged
C8_SetFailsExactly ==
    /\ []C8_AfterSet
    /\ [][setErr' = "error" => jid' = jid]_vars

\* Set failed on a JID that an earlier Set had filled, and Set("") failed
C8_Witness ==
    /\ setErr = "error"
    /\ setVal = <<>>
    /\ jid = [Node |-> <<"a">>, Domain |-> <<"b">>, Resource |-> <<"c">>]

\* the attribute text a header field must produce
HeaderAttr(name, value) ==
    IF value = <<>> THEN <<>>
    ELSE <<" ">> \o name \o <<"=", "\"">> \o Escape(value) \o <<"\"">>

\* the header's fields with their attribute names, in the order of the contract
HeaderFields(h) ==
    << <<<<"t", "o">>, h.To>>, <<<<"f", "r", "o", "m">>, h.From>>, <<<<"i", "d"
            >>, h.Id>>,
       <<<<"x", "m", "l", ":", "l", "a", "n", "g">>, h.Lang>>, <<<<"v", "e",
               "r", "s", "i", "o", "n">>, h.Version>> >>

HeaderXmlns ==
    <<" ", "x", "m", "l", "n", "s", "=", "\"", "j", "a", "b", "b", "e", "r",
            ":", "c", "l", "i", "e", "n", "t", "\"", " ", "x", "m", "l", "n",
            "s", ":", "s", "t", "r", "e", "a", "m", "=", "\"", "h", "t", "t",
            "p", ":", "/", "/", "e", "t", "h", "e", "r", "x", ".", "j", "a",
            "b", "b", "e", "r", ".", "o", "r", "g", "/", "s", "t", "r", "e",
            "a", "m", "s", "\"">>

\* the one index at which pat occurs in text, 0 when it occurs not at all or
\* more than once
TheOnly(text, pat) ==
    IF Cardinality(Positions(text, pat)) = 1
    THEN CHOOSE k \in Positions(text, pat) : TRUE
    ELSE 0

\* C5: an encoded stream header starts with "<stream:stream", carries xmlns
\* and xmlns:stream first, then exactly the non-empty fields among to, from,
\* id, xml:lang, version in that order, ends with ">" and holds neither
\* "</stream:stream>" nor "/>"
C5_StreamHeader ==
    sOut.by # "none" =>
        LET out == sOut.text
            f == HeaderFields(hdr)
            at(i) == TheOnly(out, HeaderAttr(f[i][1], f[i][2]))
        IN  /\ SubSeq(out, 1, 14) = <<"<", "s", "t", "r", "e", "a", "m", ":",
                "s", "t", "r", "e", "a", "m">>
            /\ SubSeq(out, 15, 14 + Len(HeaderXmlns)) = HeaderXmlns
            /\ \A i \in 1..5 :
                  IF f[i][2] = <<>>
                  THEN Positions(out, <<" ">> \o f[i][1] \o <<"=">>) = {}
                  ELSE at(i) > 14 + Len(HeaderXmlns)
            /\ \A i, j \in 1..5 :
                  (i < j /\ f[i][2] # <<>> /\ f[j][2] # <<>>) => at(i) < at(j)
            /\ Len(out) = 14 + Len(HeaderXmlns)
                            + Len(HeaderAttr(f[1][1], f[1][2]))
                            + Len(HeaderAttr(f[2][1], f[2][2]))
                            + Len(HeaderAttr(f[3][1], f[3][2]))
                            + Len(HeaderAttr(f[4][1], f[4][2]))
                            + Len(HeaderAttr(f[5][1], f[5][2])) + 1
            /\ out[Len(out)] = ">"
            /\ Positions(out, <<"<", "/", "s", "t", "r", "e", "a", "m", ":",
                    "s", "t", "r", "e", "a", "m", ">">>) = {}
            /\ Positions(out, <<"/", ">">>) = {}

\* the header with only to="a" and id="1" was encoded by String()
C5_Witness ==
    /\ sOut.by = "String"
    /\ hdr = [To |-> <<"a">>, From |-> <<>>, Id |-> <<"1">>, Lang |-> <<>>,
              Version |-> <<>>]
    /\ Positions(sOut.text, <<" ", "t", "o", "=", "\"", "a", "\"", " ", "i",
            "d", "=", "\"", "1", "\"", ">">>) # {}

\* upper-casing of one character
ToUpperChar(c) ==
    CASE c = "t" -> "T" [] c = "o" -> "O" [] c = "f" -> "F" [] c = "r" -> "R"
      [] c = "m" -> "M" [] c = "i" -> "I" [] c = "d" -> "D" [] c = "l" -> "L"
      [] c = "a" -> "A" [] c = "n" -> "N" [] c = "g" -> "G" [] c = "v" -> "V"
      [] c = "e" -> "E" [] c = "s" -> "S" [] c = "x" -> "X"
      [] OTHER -> c

\* a and b are equal up to letter case
EqualFold(a, b) ==
    /\ Len(a) = Len(b)
    /\ \A k \in 1..Len(a) : ToUpperChar(a[k]) = ToUpperChar(b[k])

\* the value of the last attribute of attrs named name up to letter case,
\* the empty string when there is none
AttrValue(attrs, name) ==
    LET at == { k \in 1..Len(attrs) : EqualFold(attrs[k].Name.Local, name) }
    IN  IF at = {} THEN <<>>
        ELSE attrs[CHOOSE k \in at : \A m \in at : m <= k].Value

\* C9: parseStream never fails: whatever the attributes, it returns a
\* non-nil header and a nil error; each of To, From, Id, Lang, Version is the
\* value of the attribute of that local name compared case-insensitively (of
\* the last one when it is repeated), and empty when there is none;
\* attributes of any other name change no field
C9_ParseStream ==
    ps.called =>
        /\ ps.err = "nil"
        /\ ~ps.nilStream
        /\ ps.s.To = AttrValue(se, <<"t", "o">>)
        /\ ps.s.From = AttrValue(se, <<"f", "r", "o", "m">>)
        /\ ps.s.Id = AttrValue(se, <<"i", "d">>)
        /\ ps.s.Lang = AttrValue(se, <<"l", "a", "n", "g">>)
        /\ ps.s.Version = AttrValue(se, <<"v", "e", "r", "s", "i", "o", "n">>)

\* parseStream was given TO="x" and an unknown attribute, and set To alone
C9_Witness ==
    /\ ps.called
    /\ Len(se) = 2
    /\ se[1].Name.Local = <<"T", "O">> /\ se[1].Value = <<"x">>
    /\ se[2].Name.Local = <<"x", "m", "l", "n", "s">>
    /\ ps.s = [streamZero EXCEPT !.To = <<"x">>]

\* C10: Generic.String never fails and returns a defined sentinel on a nil
\* Generic; a non-nil Generic with a nil nested element renders with the
\* nested element contributing the empty string
C10_NilGenericString ==
    gRet.by # "none" =>
        /\ ~gRet.panicked
        /\ g = <<>> => gRet.text # <<>>
        /\ (g # <<>> /\ g[1].Any = <<>>) =>
              gRet.text = genericSprintf(g[1], <<>>)

\* what C1 says of one return of ParseStanza
ParseStanzaContract(r) ==
    r.called =>
        /\ r.err # "nil" <=> r.nilStanza
        /\ r.nilStanza => r.v.kind = "none"
        /\ doc.tok # "StartElement" => r.err # "nil"
        /\ doc.tok = "StartElement" =>
              /\ (doc.name \notin { <<"i", "q">>, <<"m", "e", "s", "s", "a",
                      "g", "e">>, <<"p", "r", "e", "s", "e", "n", "c", "e">> })
                    => r.err # "nil"
              /\ ~doc.bodyOk => r.err # "nil"
              /\ (doc.name = <<"i", "q">> /\ doc.bodyOk)
                    => (r.err = "nil" /\ r.v.kind = "Iq")
              /\ (doc.name = <<"m", "e", "s", "s", "a", "g", "e"
                      >> /\ doc.bodyOk)
                    => (r.err = "nil" /\ r.v.kind = "Message")
              /\ (doc.name = <<"p", "r", "e", "s", "e", "n", "c", "e"
                      >> /\ doc.bodyOk)
                    => (r.err = "nil" /\ r.v.kind = "Presence")

\* C1: ParseStanza selects the variant from the local name of the root
\* element alone (Iq for "iq", Message for "message", Presence for
\* "presence", an error for any other name), and whenever it returns an
\* error the stanza it returns is nil, never a partially filled one
C1_ParseStanzaDispatch ==
    ParseStanzaContract(res) /\ ParseStanzaContract(res0)

\* a message whose children were read before the decoder failed: ParseStanza
\* returned an error and nil
C1_Witness ==
    /\ res.called
    /\ doc.tok = "StartElement" /\ doc.name = <<"m", "e", "s", "s", "a", "g",
            "e">>
    /\ ~doc.bodyOk /\ doc.children # <<>>
    /\ res.err # "nil" /\ res.nilStanza

\* the values of a list of addNested calls
RECURSIVE LogValues(_)
LogValues(log) ==
    IF log = <<>> THEN <<>> ELSE <<Head(log).n>> \o LogValues(Tail(log))

\* decoding has appended exactly one value, of the factory's type, for child c
OneNestedFor(c) ==
    Cardinality({ k \in 1..Len(addLog) :
                    /\ addLog[k].by = "decode"
                    /\ addLog[k].n.XMLName = c.Name }) = 1
      /\ \A k \in 1..Len(addLog) :
            (addLog[k].by = "decode" /\ addLog[k].n.XMLName = c.Name)
                => addLog[k].n.type = "bindIq"

\* decoding has appended no value for child c
NoNestedFor(c) ==
    \A k \in 1..Len(addLog) :
        addLog[k].by = "decode" => addLog[k].n.XMLName # c.Name

\* child c is bound to a field of the stanza other than Innerxml and Nested
BoundToField(v, c) ==
    \/ c.Name.Local = <<"e", "r", "r", "o", "r">> /\ v.Error = << ErrorOf(c) >>
    \/ \E l \in DOMAIN v.Slots : c.Name.Local = l /\ v.Slots[l] = << GenericOf(c) >>

\* the part of C6 that holds of the code: Nested is the addNested calls in
\* order; a child in a registered namespace gives exactly one appended value
\* of the factory's type; a child in an unregistered namespace gives none and
\* is kept in Innerxml
C6_Common ==
    (res.called /\ ~res.nilStanza) =>
        /\ res.v.Nested = LogValues(addLog)
        /\ ~res.extended => \A k \in 1..Len(addLog) : addLog[k].by = "caller"
        /\ res.extended =>
              \A k \in 1..Len(doc.children) :
                  LET c == doc.children[k]
                  IN  /\ c.Name.Space \in registry => OneNestedFor(c)
                      /\ c.Name.Space \notin registry =>
                            /\ NoNestedFor(c)
                            /\ \E m \in 1..Len(res.v.Innerxml) :
                                  res.v.Innerxml[m] = c

ModeledChildren(d) ==
    { k \in 1..Len(d.children) :
        d.children[k].Name.Local
            \in {<<"e", "r", "r", "o", "r">>} \cup SlotsOf(KindOf(d.name)) }

\* what a modeled child must be written as
ChildText(c) ==
    IF c.Name.Local = <<"e", "r", "r", "o", "r"
            >> THEN ErrorMarshalXML(ErrorOf(c))
    ELSE xmlMarshalGeneric(<< GenericOf(c) >>)

\* C2: encode(decode(x)) preserves every attribute value (to, from, id,
\* type, xml:lang) and the content of every modeled child of x: each appears
\* in the output exactly once with the same content
C2_RoundTrip ==
    enc.called =>
        LET a == << <<<<"t", "o">>, doc.attrs.to>>, <<<<"f", "r", "o", "m"
                >>, doc.attrs.from>>,
                    <<<<"i", "d">>, doc.attrs.id>>, <<<<"t", "y", "p", "e"
                            >>, doc.attrs.type>>,
                    <<<<"x", "m", "l", ":", "l", "a", "n", "g"
                            >>, doc.attrs.lang>> >>
        IN  /\ \A i \in 1..5 :
                  a[i][2] # <<>> =>
                      Cardinality({ k \in 1..Len(enc.parts) :
                          /\ enc.parts[k].part = "attr"
                          /\ enc.parts[k].name = a[i][1]
                          /\ enc.parts[k].text = HeaderAttr(a[i][1], a[i][2]) }) = 1
            /\ \A m \in ModeledChildren(doc) :
                  Cardinality({ k \in 1..Len(enc.parts) :
                      /\ enc.parts[k].part = "child"
                      /\ enc.parts[k].name = doc.children[m].Name.Local
                      /\ enc.parts[k].text = ChildText(doc.children[m]) }) = 1

\* the pieces C3 requires of the encoding of v, as <<part, name>>
RequiredPieces(v) ==
    LET attr(name, value) == IF value # <<>> THEN << <<"attr", name>> >> ELSE <<>>
        known(l) == IF l \in DOMAIN v.Slots /\ v.Slots[l] # <<>>
                    THEN << <<"child", l>> >> ELSE <<>>
    IN  << <<"open", XName(v)>> >>
            \o attr(<<"t", "o">>, v.To) \o attr(<<"f", "r", "o", "m"
                    >>, v.From) \o attr(<<"i", "d">>, v.Id)
            \o attr(<<"t", "y", "p", "e">>, v.Type) \o attr(<<"x", "m", "l",
                    ":", "l", "a", "n", "g">>, v.Lang)
            \o << <<"gt", <<>> >> >>
            \o (IF v.Error # <<>> THEN << <<"child", <<"e", "r", "r", "o", "r"
                    >>>> >> ELSE <<>>)
            \o known(<<"s", "u", "b", "j", "e", "c", "t">>) \o known(<<"b",
                    "o", "d", "y">>) \o known(<<"t", "h", "r", "e", "a", "d">>)
            \o known(<<"s", "h", "o", "w">>) \o known(<<"s", "t", "a", "t",
                    "u", "s">>) \o known(<<"p", "r", "i", "o", "r", "i", "t",
                    "y">>)
            \o (IF v.Any # <<>>
                THEN << <<"child", v.Any[1].XMLName.Local>> >> ELSE <<>>)
            \o known(<<"q", "u", "e", "r", "y">>)
            \o << <<"close", XName(v)>> >>

\* C3: encoding a stanza emits the opening tag with to, from, id, type,
\* xml:lang, then the error child if present, then the variant's known
\* children, then the extension values in stored order, then the closing
\* tag of the same name; every present known child is emitted
C3_EncodeOrder ==
    enc.called =>
        [k \in 1..Len(enc.parts) |-> <<enc.parts[k].part, enc.parts[k].name>>]
            = RequiredPieces(res0.v)

\* text holds no attribute of the form name=""
NoEmptyAttr(text) == Positions(text, <<"=", "\"", "\"">>) = {}

\* C4: no encoder emits an attribute whose value is the empty string: not
\* for a stream header, a stanza or an Error, an Error with an empty Type
\* and a stanza with empty header fields included
C4_NoEmptyAttribute ==
    /\ NoEmptyAttr(sOut.text)
    /\ NoEmptyAttr(Bytes(enc.parts))
    /\ NoEmptyAttr(erOut.text)

====
